---- MODULE Spec2Model ----
(***************************************************************************)
(* Model of data/gen_data.py: the batched generation and loading pipeline  *)
(* for practices, doctors, licenses and doctor-practice associations.      *)
(*                                                                         *)
(* The database is modelled as a transactional store: `committed` is what  *)
(* survives the end of the connection, `current` is the view of the open   *)
(* transaction.  A row's random field values are abstracted to `n`, the    *)
(* ordinal of the row in its generation loop, and `run` (0: present before *)
(* this run, 1: generated by this run).                                    *)
(***************************************************************************)
EXTENDS Integers, Sequences, FiniteSets, TLC

\* ---------------------------------------------------------------- bounds
MaxDoctors == 2
MaxPractices == 3
\* most (doctor, practice) pairs a configuration offers to the affiliation stage
MaxPairs == 6
MaxBatch == 2
MaxOld == 1
\* of the outcomes lo..hi of a random draw, the MaxEdge + 1 lowest and highest
MaxEdge == 4

\* ------------------------------------------------------ program constants
MAX_LICENSES_PER_DOCTOR == 3
MAX_PRACTICES_PER_DOCTOR == 3
\* `365*1`, `365*10`: the days the source counts for a year
DaysPerYear == 365

VARIABLES
    pc,                     \* position of the single thread of control
    error,                  \* the exception that ended the run, or "none"
    db,                     \* the PostgreSQL database behind conn
    NUM_DOCTORS,            \* target counts (module-level configuration)
    NUM_PRACTICES,
    batch_size,             \* batch_size local of each generate_* function
    answer,                 \* what input() returned
    practice_ids,
    doctor_ids,
    practice_batch,
    doctor_batch,
    license_batch,
    doctor_practice_batch,
    i,                      \* index of the running for/enumerate loop
    doctor_pos,             \* position of `for doctor_id in doctor_ids`
    num_licenses,
    num_practices,
    doctor_practices,
    licenses_count,
    associations_count,
    flushLog,               \* history: every bulk insert issued, in order
    stagesRun,              \* history: the functions main() has called
    generated,              \* history: every row appended to a batch
    issue_date,             \* the date locals of the two relationship loops,
    expiry_date,            \*   in days relative to today; a row's dates
    start_date,             \*   decide nothing in the pipeline and are
    end_date                \*   generated on their own in DateSpec

vars == <<pc, error, db, NUM_DOCTORS, NUM_PRACTICES, batch_size, answer,
          practice_ids, doctor_ids, practice_batch, doctor_batch,
          license_batch, doctor_practice_batch, i, doctor_pos, num_licenses,
          num_practices, doctor_practices, licenses_count,
          associations_count, flushLog, stagesRun, generated,
          issue_date, expiry_date, start_date, end_date>>

config == <<NUM_DOCTORS, NUM_PRACTICES, batch_size>>
batches == <<practice_batch, doctor_batch, license_batch, doctor_practice_batch>>
idLists == <<practice_ids, doctor_ids>>
licLocals == <<num_licenses, licenses_count>>
assocLocals == <<num_practices, doctor_practices, associations_count>>
dateLocals == <<issue_date, expiry_date, start_date, end_date>>

\* ------------------------------------------------------------ the database
Tables == {"practices", "doctors", "licenses", "doctor_practices"}

EmptyTables == [t \in Tables |-> <<>>]

Min(a, b) == IF a <= b THEN a ELSE b

RECURSIVE Flatten(_)
Flatten(ss) == IF ss = <<>> THEN <<>> ELSE Head(ss) \o Flatten(Tail(ss))

Range(s) == {s[x] : x \in DOMAIN s}

\* Rows present before the run: c rows in every table, dependents pointing
\* at the existing parents.
OldTables(c) ==
    [practices        |-> [x \in 1..c |-> [practice_id |-> x, run |-> 0, n |-> x]],
     doctors          |-> [x \in 1..c |-> [doctor_id |-> x, run |-> 0, n |-> x]],
     licenses         |-> [x \in 1..c |-> [doctor_id |-> x, run |-> 0, n |-> x]],
     doctor_practices |-> [x \in 1..c |-> [doctor_id |-> x, practice_id |-> x,
                                           is_primary |-> TRUE, run |-> 0, n |-> x]]]

\* Only the two dependent tables named, and no CASCADE.
TruncateDependentsOnly(d) ==
    [d EXCEPT !.current.doctor_practices = <<>>,
              !.current.licenses = <<>>]

\* TRUNCATE ... RESTART IDENTITY CASCADE, inside the open transaction.
Truncate(d) ==
    [d EXCEPT !.current = EmptyTables,
              !.seq = [practices |-> 1, doctors |-> 1]]

\* conn.commit() left out.
CommitNothing(d) == d

Commit(d) == [d EXCEPT !.committed = d.current]

\* What the server does with an open transaction when the connection ends.
Rollback(d) == [d EXCEPT !.current = d.committed]

\* The rows as stored by INSERT INTO practices ... RETURNING practice_id:
\* the k-th submitted row takes the k-th value of the identity sequence.
StoredPractices(d, rows) ==
    [x \in 1..Len(rows) |->
        [practice_id |-> d.seq.practices + x - 1, run |-> rows[x].run, n |-> rows[x].n]]

StoredDoctors(d, rows) ==
    [x \in 1..Len(rows) |->
        [doctor_id |-> d.seq.doctors + x - 1, run |-> rows[x].run, n |-> rows[x].n]]

InsertPractices(d, rows) ==
    [d EXCEPT !.current.practices = @ \o StoredPractices(d, rows),
              !.seq.practices = @ + Len(rows)]

InsertDoctors(d, rows) ==
    [d EXCEPT !.current.doctors = @ \o StoredDoctors(d, rows),
              !.seq.doctors = @ + Len(rows)]

\* INSERT without RETURNING (licenses, doctor_practices).
InsertRows(d, t, rows) == [d EXCEPT !.current[t] = @ \o rows]

\* ------------------------------------------------------------- the answer
Answers == { <<"y">>, <<"Y">>, <<"n">>, <<"N">>, <<>>, <<"y", "e", "s">>,
             <<"Y", " ">>, <<"y", "y">> }

LowerChar(c) ==
    CASE c = "Y" -> "y"
      [] c = "N" -> "n"
      [] c = "E" -> "e"
      [] c = "S" -> "s"
      [] OTHER   -> c

\* str.lower()
Lower(s) == [x \in DOMAIN s |-> LowerChar(s[x])]

\* ------------------------------------------------------------ batch sizes
Stages == <<"clear_tables", "generate_practices", "generate_doctors",
            "generate_licenses", "generate_doctor_practices">>

\* The four batch_size locals.  The source fixes them at 100, 10000, 100000
\* and 100000; the model runs every uniform size up to the bound and one
\* graded configuration (small for practices, larger for the rest).
BatchConfigs ==
    { [practices |-> b, doctors |-> b, licenses |-> b, doctor_practices |-> b]
        : b \in 1..MaxBatch }
    \cup
    { [practices |-> 1, doctors |-> MaxBatch, licenses |-> MaxBatch + 1,
       doctor_practices |-> MaxBatch + 1] }

\* ------------------------------------------------------------------- Init
\* No exception, nothing generated, the locals unset.
Unstarted ==
    /\ error = "none"
    /\ answer = <<>>
    /\ practice_ids = <<>>
    /\ doctor_ids = <<>>
    /\ practice_batch = <<>>
    /\ doctor_batch = <<>>
    /\ license_batch = <<>>
    /\ doctor_practice_batch = <<>>
    /\ i = 0
    /\ doctor_pos = 0
    /\ num_licenses = 0
    /\ num_practices = 0
    /\ doctor_practices = <<>>
    /\ licenses_count = 0
    /\ associations_count = 0
    /\ flushLog = <<>>
    /\ stagesRun = <<>>
    /\ generated = EmptyTables
    /\ issue_date = 0
    /\ expiry_date = 0
    /\ start_date = 0
    /\ end_date = <<>>

\* Everything but the position: a sink with or without rows from before,
\* the target counts and the batch sizes.
Fresh ==
    /\ Unstarted
    /\ \E c \in 0..MaxOld :
         db = [committed |-> OldTables(c), current |-> OldTables(c),
               seq |-> [practices |-> c + 1, doctors |-> c + 1]]
    /\ NUM_DOCTORS \in 0..MaxDoctors
    /\ NUM_PRACTICES \in 0..MaxPractices
    /\ NUM_DOCTORS * NUM_PRACTICES <= MaxPairs
    /\ batch_size \in BatchConfigs

Init ==
    /\ pc = "connect"
    /\ Fresh

\* The exception swallowed: the run stays where it is and tries again.
RaiseAndRetry(e) ==
    /\ pc' = pc
    /\ error' = e
    /\ db' = Rollback(db)

\* An uncaught exception: the interpreter exits, the connection ends and the
\* server rolls the open transaction back.
Raise(e) ==
    /\ pc' = "failed"
    /\ error' = e
    /\ db' = Rollback(db)

\* A bulk insert the server rejected: logged, nothing stored.
LogFailed(t, rows) ==
    flushLog' = Append(flushLog, [table |-> t, rows |-> rows, status |-> "failed"])

LogInserted(t, rows) ==
    flushLog' = Append(flushLog, [table |-> t, rows |-> rows, status |-> "inserted"])

LogCommitted ==
    flushLog' = [flushLog EXCEPT ![Len(flushLog)].status = "committed"]

LogCommitFailed ==
    flushLog' = [flushLog EXCEPT ![Len(flushLog)].status = "failed"]

\* ------------------------------------------------------------------ main
\* The handler reports the error and returns None; main goes on.
ConnectFailedGoesOn ==
    /\ pc' = "prompt"
    /\ error' = "connect"

\* connect_to_db(): `except psycopg2.Error as e:` print, exit(1)
ConnectFailed ==
    /\ pc' = "exit_error"
    /\ error' = "connect"

\* connect_to_db(): psycopg2.connect either returns a connection or raises
\* psycopg2.Error, which is caught and turned into exit(1).
ConnectToDb ==
    /\ pc = "connect"
    /\ \/ /\ pc' = "prompt"
          /\ error' = error
       \/ ConnectFailed
    /\ UNCHANGED <<dateLocals, db, config, answer, idLists, batches, i, doctor_pos,
                   licLocals, assocLocals, flushLog, stagesRun, generated>>

\* Only an explicit "n" declines.
DeclinedOnlyOnNo(a) == Lower(a) = <<"n">>

\* `answer.lower() != 'y'`
Declined(a) == Lower(a) # <<"y">>

\* main() with the call of generate_licenses left out.
MainAfterSkippingLicenses(f) ==
    CASE f = "clear_tables"              -> "generate_practices"
      [] f = "generate_practices"        -> "generate_doctors"
      [] f = "generate_doctors"          -> "generate_doctor_practices"
      [] f = "generate_licenses"         -> "generate_doctor_practices"
      [] f = "generate_doctor_practices" -> "close"

\* The call sequence of main() after the confirmation: the function called
\* when f returns ("close" stands for conn.close()).
MainAfter(f) ==
    CASE f = "clear_tables"              -> "generate_practices"
      [] f = "generate_practices"        -> "generate_doctors"
      [] f = "generate_doctors"          -> "generate_licenses"
      [] f = "generate_licenses"         -> "generate_doctor_practices"
      [] f = "generate_doctor_practices" -> "close"

\* The first position of each function.
EntryPc(f) ==
    CASE f = "clear_tables"              -> "clear_tables"
      [] f = "generate_practices"        -> "practices_loop"
      [] f = "generate_doctors"          -> "doctors_loop"
      [] f = "generate_licenses"         -> "licenses_loop"
      [] f = "generate_doctor_practices" -> "doctor_practices_loop"
      [] f = "close"                     -> "close"

\* f returns to main, which makes its next call.
Return(f) ==
    /\ pc' = EntryPc(MainAfter(f))
    /\ stagesRun' = IF MainAfter(f) = "close" THEN stagesRun
                     ELSE Append(stagesRun, MainAfter(f))

\* answer = input(...); if answer.lower() != 'y': cancel, close, return.
Confirm ==
    /\ pc = "prompt"
    /\ \E a \in Answers :
         /\ answer' = a
         /\ IF Declined(a)
              THEN /\ pc' = "cancelled"
                   /\ db' = Rollback(db)
                   /\ stagesRun' = stagesRun
              ELSE /\ pc' = EntryPc("clear_tables")
                   /\ db' = db
                   /\ stagesRun' = Append(stagesRun, "clear_tables")
    /\ UNCHANGED <<dateLocals, error, config, idLists, batches, i, doctor_pos,
                   licLocals, assocLocals, flushLog, generated>>

\* clear_tables: cur.execute("TRUNCATE ...")
ClearTablesExecute ==
    /\ pc = "clear_tables"
    /\ \/ /\ db' = Truncate(db)
          /\ pc' = "clear_commit"
          /\ error' = error
       \/ Raise("psycopg2.Error")
    /\ UNCHANGED <<dateLocals, config, answer, idLists, batches, i, doctor_pos,
                   licLocals, assocLocals, flushLog, stagesRun, generated>>

\* clear_tables: conn.commit(), then main calls generate_practices.
ClearTablesCommit ==
    /\ pc = "clear_commit"
    /\ \/ /\ db' = Commit(db)
          /\ Return("clear_tables")
          /\ error' = error
       \/ /\ Raise("psycopg2.Error")
          /\ stagesRun' = stagesRun
    /\ i' = 0
    /\ UNCHANGED <<dateLocals, config, answer, idLists, batches, doctor_pos,
                   licLocals, assocLocals, flushLog, generated>>

\* --------------------------------------------------- generate_practices
\* The tuple built in the loop body; its random fields are abstracted to
\* the ordinal of the row.
PracticeRow(idx) == [run |-> 1, n |-> idx + 1]

DoctorRow(idx) == [run |-> 1, n |-> idx + 1]

\* The flush test without its end-of-stream half.
FlushDueFullOnly(batch, size, idx, total) == Len(batch) >= size

\* `len(batch) >= batch_size or i == NUM - 1`
FlushDue(batch, size, idx, total) == Len(batch) >= size \/ idx = total - 1

\* practice_batch.append(practice), then the flush test.
PracticesAppend ==
    /\ pc = "practices_loop"
    /\ i < NUM_PRACTICES
    /\ practice_batch' = Append(practice_batch, PracticeRow(i))
    /\ generated' = [generated EXCEPT !.practices = Append(@, PracticeRow(i))]
    /\ IF FlushDue(practice_batch', batch_size.practices, i, NUM_PRACTICES)
         THEN /\ pc' = "practices_insert"
              /\ i' = i
         ELSE /\ pc' = "practices_loop"
              /\ i' = i + 1
    /\ UNCHANGED <<dateLocals, error, db, config, answer, idLists, doctor_batch,
                   license_batch, doctor_practice_batch, doctor_pos,
                   licLocals, assocLocals, flushLog, stagesRun>>

\* cur.execute(INSERT ... RETURNING practice_id); practice_ids.extend(new_ids)
PracticesInsert ==
    /\ pc = "practices_insert"
    /\ \/ /\ db' = InsertPractices(db, practice_batch)
          /\ practice_ids' = practice_ids \o
                [x \in 1..Len(practice_batch) |->
                    StoredPractices(db, practice_batch)[x].practice_id]
          /\ LogInserted("practices", practice_batch)
          /\ pc' = "practices_commit"
          /\ error' = error
       \/ /\ Raise("psycopg2.Error")
          /\ LogFailed("practices", practice_batch)
          /\ practice_ids' = practice_ids
    /\ UNCHANGED <<dateLocals, config, answer, doctor_ids, batches, i, doctor_pos,
                   licLocals, assocLocals, stagesRun, generated>>

\* conn.commit(); practice_batch = []
PracticesCommit ==
    /\ pc = "practices_commit"
    /\ \/ /\ db' = Commit(db)
          /\ LogCommitted
          /\ practice_batch' = <<>>
          /\ i' = i + 1
          /\ pc' = "practices_loop"
          /\ error' = error
       \/ /\ Raise("psycopg2.Error")
          /\ LogCommitFailed
          /\ UNCHANGED <<practice_batch, i>>
    /\ UNCHANGED <<dateLocals, config, answer, idLists, doctor_batch, license_batch,
                   doctor_practice_batch, doctor_pos, licLocals, assocLocals,
                   stagesRun, generated>>

\* range(NUM_PRACTICES) is exhausted: return practice_ids; main calls
\* generate_doctors.
PracticesReturn ==
    /\ pc = "practices_loop"
    /\ i >= NUM_PRACTICES
    /\ Return("generate_practices")
    /\ i' = 0
    /\ UNCHANGED <<dateLocals, error, db, config, answer, idLists, batches, doctor_pos,
                   licLocals, assocLocals, flushLog, generated>>

\* ------------------------------------------------------ generate_doctors
DoctorsAppend ==
    /\ pc = "doctors_loop"
    /\ i < NUM_DOCTORS
    /\ doctor_batch' = Append(doctor_batch, DoctorRow(i))
    /\ generated' = [generated EXCEPT !.doctors = Append(@, DoctorRow(i))]
    /\ IF FlushDue(doctor_batch', batch_size.doctors, i, NUM_DOCTORS)
         THEN /\ pc' = "doctors_insert"
              /\ i' = i
         ELSE /\ pc' = "doctors_loop"
              /\ i' = i + 1
    /\ UNCHANGED <<dateLocals, error, db, config, answer, idLists, practice_batch,
                   license_batch, doctor_practice_batch, doctor_pos,
                   licLocals, assocLocals, flushLog, stagesRun>>

DoctorsInsert ==
    /\ pc = "doctors_insert"
    /\ \/ /\ db' = InsertDoctors(db, doctor_batch)
          /\ doctor_ids' = doctor_ids \o
                [x \in 1..Len(doctor_batch) |->
                    StoredDoctors(db, doctor_batch)[x].doctor_id]
          /\ LogInserted("doctors", doctor_batch)
          /\ pc' = "doctors_commit"
          /\ error' = error
       \/ /\ Raise("psycopg2.Error")
          /\ LogFailed("doctors", doctor_batch)
          /\ doctor_ids' = doctor_ids
    /\ UNCHANGED <<dateLocals, config, answer, practice_ids, batches, i, doctor_pos,
                   licLocals, assocLocals, stagesRun, generated>>

DoctorsCommit ==
    /\ pc = "doctors_commit"
    /\ \/ /\ db' = Commit(db)
          /\ LogCommitted
          /\ doctor_batch' = <<>>
          /\ i' = i + 1
          /\ pc' = "doctors_loop"
          /\ error' = error
       \/ /\ Raise("psycopg2.Error")
          /\ LogCommitFailed
          /\ UNCHANGED <<doctor_batch, i>>
    /\ UNCHANGED <<dateLocals, config, answer, idLists, practice_batch, license_batch,
                   doctor_practice_batch, doctor_pos, licLocals, assocLocals,
                   stagesRun, generated>>

\* return doctor_ids; main calls generate_licenses(conn, doctor_ids).
DoctorsReturn ==
    /\ pc = "doctors_loop"
    /\ i >= NUM_DOCTORS
    /\ Return("generate_doctors")
    /\ i' = 0
    /\ doctor_pos' = 0
    /\ UNCHANGED <<dateLocals, error, db, config, answer, idLists, batches,
                   licLocals, assocLocals, flushLog, generated>>

\* ----------------------------------------------------- generate_licenses
\* randint(0, MAX_LICENSES_PER_DOCTOR)
NumLicensesFromZero == 0..MAX_LICENSES_PER_DOCTOR

\* random.randint(1, MAX_LICENSES_PER_DOCTOR)
NumLicensesChoices == 1..MAX_LICENSES_PER_DOCTOR

\* The row keyed by the running count instead of the doctor's identifier.
LicenseRowByCount(doctor_id, cnt) == [doctor_id |-> cnt, run |-> 1, n |-> cnt + 1]

\* license_info = (doctor_id, ...)
LicenseRow(doctor_id, cnt) == [doctor_id |-> doctor_id, run |-> 1, n |-> cnt + 1]

\* `for doctor_id in doctor_ids`: next doctor, draw num_licenses.
LicensesNextDoctor ==
    /\ pc = "licenses_loop"
    /\ doctor_pos < Len(doctor_ids)
    /\ doctor_pos' = doctor_pos + 1
    /\ \E k \in NumLicensesChoices : num_licenses' = k
    /\ i' = 0
    /\ pc' = IF num_licenses' > 0 THEN "licenses_inner" ELSE "licenses_loop"
    /\ UNCHANGED <<dateLocals, error, db, config, answer, idLists, batches,
                   licenses_count, assocLocals, flushLog, stagesRun, generated>>

\* license_batch.append(license_info); licenses_count += 1; the flush test.
LicensesAppend ==
    /\ pc = "licenses_inner"
    /\ license_batch' = Append(license_batch,
                               LicenseRow(doctor_ids[doctor_pos], licenses_count))
    /\ generated' = [generated EXCEPT !.licenses =
                        Append(@, LicenseRow(doctor_ids[doctor_pos], licenses_count))]
    /\ licenses_count' = licenses_count + 1
    /\ IF Len(license_batch') >= batch_size.licenses
         THEN /\ pc' = "licenses_insert"
              /\ i' = i
         ELSE /\ pc' = IF i + 1 < num_licenses THEN "licenses_inner" ELSE "licenses_loop"
              /\ i' = i + 1
    /\ UNCHANGED <<dateLocals, error, db, config, answer, idLists, practice_batch,
                   doctor_batch, doctor_practice_batch, doctor_pos,
                   num_licenses, assocLocals, flushLog, stagesRun>>

\* The in-loop flush: cur.execute(INSERT INTO licenses ...)
LicensesInsert ==
    /\ pc = "licenses_insert"
    /\ \/ /\ db' = InsertRows(db, "licenses", license_batch)
          /\ LogInserted("licenses", license_batch)
          /\ pc' = "licenses_commit"
          /\ error' = error
       \/ /\ Raise("psycopg2.Error")
          /\ LogFailed("licenses", license_batch)
    /\ UNCHANGED <<dateLocals, config, answer, idLists, batches, i, doctor_pos,
                   licLocals, assocLocals, stagesRun, generated>>

\* conn.commit(); license_batch = []
LicensesCommit ==
    /\ pc = "licenses_commit"
    /\ \/ /\ db' = Commit(db)
          /\ LogCommitted
          /\ license_batch' = <<>>
          /\ i' = i + 1
          /\ pc' = IF i + 1 < num_licenses THEN "licenses_inner" ELSE "licenses_loop"
          /\ error' = error
       \/ /\ Raise("psycopg2.Error")
          /\ LogCommitFailed
          /\ UNCHANGED <<license_batch, i>>
    /\ UNCHANGED <<dateLocals, config, answer, idLists, practice_batch, doctor_batch,
                   doctor_practice_batch, doctor_pos, licLocals, assocLocals,
                   stagesRun, generated>>

\* The final flush made unconditionally.
RestDueAlways(batch) == TRUE

\* The final flush left out.
RestDueNever(batch) == FALSE

\* `if license_batch:` after the loop
RestDue(batch) == batch # <<>>

\* doctor_ids is exhausted: flush what is left, or return at once.
LicensesRest ==
    /\ pc = "licenses_loop"
    /\ doctor_pos >= Len(doctor_ids)
    /\ IF RestDue(license_batch)
         THEN /\ pc' = "licenses_rest_insert"
              /\ UNCHANGED <<doctor_pos, stagesRun>>
         ELSE /\ Return("generate_licenses")
              /\ doctor_pos' = 0
    /\ UNCHANGED <<dateLocals, error, db, config, answer, idLists, batches, i,
                   licLocals, assocLocals, flushLog, generated>>

LicensesRestInsert ==
    /\ pc = "licenses_rest_insert"
    /\ \/ /\ db' = InsertRows(db, "licenses", license_batch)
          /\ LogInserted("licenses", license_batch)
          /\ pc' = "licenses_rest_commit"
          /\ error' = error
       \/ /\ Raise("psycopg2.Error")
          /\ LogFailed("licenses", license_batch)
    /\ UNCHANGED <<dateLocals, config, answer, idLists, batches, i, doctor_pos,
                   licLocals, assocLocals, stagesRun, generated>>

\* conn.commit(), print, return; main calls generate_doctor_practices.
LicensesRestCommit ==
    /\ pc = "licenses_rest_commit"
    /\ \/ /\ db' = Commit(db)
          /\ LogCommitted
          /\ Return("generate_licenses")
          /\ doctor_pos' = 0
          /\ error' = error
       \/ /\ Raise("psycopg2.Error")
          /\ LogCommitFailed
          /\ UNCHANGED <<doctor_pos, stagesRun>>
    /\ UNCHANGED <<dateLocals, config, answer, idLists, batches, i, licLocals,
                   assocLocals, generated>>

\* --------------------------------------------- generate_doctor_practices
\* random.randint(1, MAX_PRACTICES_PER_DOCTOR)
NumPracticesChoices == 1..MAX_PRACTICES_PER_DOCTOR

\* The requested count passed to random.sample unclamped.
SampleSizeUnclamped(num, ids) == num

\* min(num_practices, len(practice_ids))
SampleSize(num, ids) == Min(num, Len(ids))

\* Sampling with replacement (random.choices).
SamplesWithReplacement(ids, k) ==
    { [x \in 1..k |-> ids[p[x]]] : p \in [1..k -> 1..Len(ids)] }

\* random.sample(population, k): k elements at pairwise distinct positions,
\* in any order.  Defined for 0 <= k <= len(population).
Samples(ids, k) ==
    { [x \in 1..k |-> ids[p[x]]] :
        p \in { q \in [1..k -> 1..Len(ids)] :
                  \A a, b \in 1..k : a # b => q[a] # q[b] } }

\* Every row flagged primary.
IsPrimaryAlways(idx) == TRUE

\* `i == 0`
IsPrimary(idx) == idx = 0

AssocRow(doctor_id, practice_id, idx, cnt) ==
    [doctor_id |-> doctor_id, practice_id |-> practice_id,
     is_primary |-> IsPrimary(idx), run |-> 1, n |-> cnt + 1]

\* Next doctor: draw num_practices and the sample.  random.sample raises
\* ValueError when asked for more elements than the population holds.
AssocNextDoctor ==
    /\ pc = "doctor_practices_loop"
    /\ doctor_pos < Len(doctor_ids)
    /\ \E num \in NumPracticesChoices :
         /\ num_practices' = num
         /\ IF SampleSize(num, practice_ids) > Len(practice_ids)
              THEN /\ Raise("ValueError")
                   /\ UNCHANGED <<doctor_pos, doctor_practices, i>>
              ELSE /\ \E s \in Samples(practice_ids, SampleSize(num, practice_ids)) :
                        /\ doctor_practices' = s
                        /\ pc' = IF s # <<>> THEN "doctor_practices_inner"
                                             ELSE "doctor_practices_loop"
                   /\ doctor_pos' = doctor_pos + 1
                   /\ i' = 0
                   /\ UNCHANGED <<error, db>>
    /\ UNCHANGED <<dateLocals, config, answer, idLists, batches, licLocals,
                   associations_count, flushLog, stagesRun, generated>>

\* doctor_practice_batch.append(association); associations_count += 1
AssocAppend ==
    /\ pc = "doctor_practices_inner"
    /\ LET row == AssocRow(doctor_ids[doctor_pos], doctor_practices[i + 1], i,
                           associations_count)
       IN /\ doctor_practice_batch' = Append(doctor_practice_batch, row)
          /\ generated' = [generated EXCEPT !.doctor_practices = Append(@, row)]
    /\ associations_count' = associations_count + 1
    /\ IF Len(doctor_practice_batch') >= batch_size.doctor_practices
         THEN /\ pc' = "doctor_practices_insert"
              /\ i' = i
         ELSE /\ pc' = IF i + 1 < Len(doctor_practices)
                         THEN "doctor_practices_inner" ELSE "doctor_practices_loop"
              /\ i' = i + 1
    /\ UNCHANGED <<dateLocals, error, db, config, answer, idLists, practice_batch,
                   doctor_batch, license_batch, doctor_pos, licLocals,
                   num_practices, doctor_practices, flushLog, stagesRun>>

AssocInsert ==
    /\ pc = "doctor_practices_insert"
    /\ \/ /\ db' = InsertRows(db, "doctor_practices", doctor_practice_batch)
          /\ LogInserted("doctor_practices", doctor_practice_batch)
          /\ pc' = "doctor_practices_commit"
          /\ error' = error
       \/ /\ Raise("psycopg2.Error")
          /\ LogFailed("doctor_practices", doctor_practice_batch)
    /\ UNCHANGED <<dateLocals, config, answer, idLists, batches, i, doctor_pos,
                   licLocals, assocLocals, stagesRun, generated>>

AssocCommit ==
    /\ pc = "doctor_practices_commit"
    /\ \/ /\ db' = Commit(db)
          /\ LogCommitted
          /\ doctor_practice_batch' = <<>>
          /\ i' = i + 1
          /\ pc' = IF i + 1 < Len(doctor_practices)
                     THEN "doctor_practices_inner" ELSE "doctor_practices_loop"
          /\ error' = error
       \/ /\ Raise("psycopg2.Error")
          /\ LogCommitFailed
          /\ UNCHANGED <<doctor_practice_batch, i>>
    /\ UNCHANGED <<dateLocals, config, answer, idLists, practice_batch, doctor_batch,
                   license_batch, doctor_pos, licLocals, assocLocals,
                   stagesRun, generated>>

\* `if doctor_practice_batch:` after the loop
AssocRest ==
    /\ pc = "doctor_practices_loop"
    /\ doctor_pos >= Len(doctor_ids)
    /\ IF RestDue(doctor_practice_batch)
         THEN /\ pc' = "doctor_practices_rest_insert"
              /\ stagesRun' = stagesRun
         ELSE Return("generate_doctor_practices")
    /\ UNCHANGED <<dateLocals, error, db, config, answer, idLists, batches, i, doctor_pos,
                   licLocals, assocLocals, flushLog, generated>>

AssocRestInsert ==
    /\ pc = "doctor_practices_rest_insert"
    /\ \/ /\ db' = InsertRows(db, "doctor_practices", doctor_practice_batch)
          /\ LogInserted("doctor_practices", doctor_practice_batch)
          /\ pc' = "doctor_practices_rest_commit"
          /\ error' = error
       \/ /\ Raise("psycopg2.Error")
          /\ LogFailed("doctor_practices", doctor_practice_batch)
    /\ UNCHANGED <<dateLocals, config, answer, idLists, batches, i, doctor_pos,
                   licLocals, assocLocals, stagesRun, generated>>

AssocRestCommit ==
    /\ pc = "doctor_practices_rest_commit"
    /\ \/ /\ db' = Commit(db)
          /\ LogCommitted
          /\ Return("generate_doctor_practices")
          /\ error' = error
       \/ /\ Raise("psycopg2.Error")
          /\ LogCommitFailed
          /\ stagesRun' = stagesRun
    /\ UNCHANGED <<dateLocals, config, answer, idLists, batches, i, doctor_pos,
                   licLocals, assocLocals, generated>>

\* conn.close() at the end of main, then the summary is printed.
Close ==
    /\ pc = "close"
    /\ db' = Rollback(db)
    /\ pc' = "done"
    /\ UNCHANGED <<dateLocals, error, config, answer, idLists, batches, i, doctor_pos,
                   licLocals, assocLocals, flushLog, stagesRun, generated>>

Next ==
    \/ ConnectToDb
    \/ Confirm
    \/ ClearTablesExecute
    \/ ClearTablesCommit
    \/ PracticesAppend
    \/ PracticesInsert
    \/ PracticesCommit
    \/ PracticesReturn
    \/ DoctorsAppend
    \/ DoctorsInsert
    \/ DoctorsCommit
    \/ DoctorsReturn
    \/ LicensesNextDoctor
    \/ LicensesAppend
    \/ LicensesInsert
    \/ LicensesCommit
    \/ LicensesRest
    \/ LicensesRestInsert
    \/ LicensesRestCommit
    \/ AssocNextDoctor
    \/ AssocAppend
    \/ AssocInsert
    \/ AssocCommit
    \/ AssocRest
    \/ AssocRestInsert
    \/ AssocRestCommit
    \/ Close

Spec == Init /\ [][Next]_vars

\* The interpreter runs the single thread of control until it returns or
\* raises: a step that can be taken is taken.
FairSpec == Spec /\ WF_vars(Next)

TypeOK ==
    /\ pc \in STRING
    /\ Len(practice_ids) <= NUM_PRACTICES
    /\ Len(doctor_ids) <= NUM_DOCTORS

\* ------------------------------------------------- vocabulary of the claims
\* The ordinals of a sequence of rows (the rows without their identifiers).
Ns(rows) == [x \in 1..Len(rows) |-> rows[x].n]

\* The rows of all bulk inserts into t with the given status, in order.
Flushed(t, status) ==
    LET Hit(e) == e.table = t /\ e.status = status
        es == SelectSeq(flushLog, Hit)
    IN  Flatten([x \in 1..Len(es) |-> es[x].rows])

\* The rows of a sequence that belong to doctor d.
RowsOfDoctor(rows, d) ==
    LET Mine(r) == r.doctor_id = d
    IN  SelectSeq(rows, Mine)

StageIndex(t) ==
    CASE t = "practices" -> 2
      [] t = "doctors" -> 3
      [] t = "licenses" -> 4
      [] t = "doctor_practices" -> 5

\* clear_tables has returned.
Cleared == Len(stagesRun) >= 2

PracticesLoaded == Len(stagesRun) >= 3

DoctorsLoaded == Len(stagesRun) >= 4

LicensesLoaded == Len(stagesRun) >= 5

InAssocStage == Len(stagesRun) = 5

\* The affiliation loop has finished with the doctor at position p.
AssocDoneFor(p) ==
    /\ InAssocStage
    /\ \/ doctor_pos > p
       \/ /\ doctor_pos = p
          /\ pc \in {"doctor_practices_loop", "doctor_practices_rest_insert",
                     "doctor_practices_rest_commit", "close", "done"}

\* The license loop has finished with the doctor at position p.
LicensesDoneFor(p) ==
    \/ LicensesLoaded
    \/ /\ Len(stagesRun) = 4
       /\ \/ doctor_pos > p
          \/ /\ doctor_pos = p
             /\ pc \in {"licenses_loop", "licenses_rest_insert", "licenses_rest_commit"}

Distinct(ids) == \A a, b \in DOMAIN ids : a # b => ids[a] # ids[b]

\* ---------------------------------------------------------------- C1
\* C1: a run in which every flush succeeds leaves exactly NUM_DOCTORS doctor
\* rows and NUM_PRACTICES practice rows in the sink and returns identifier
\* lists of these lengths; every generated row was submitted in exactly one
\* flush and is stored exactly once, in generation order.  The practices
\* half already holds when generate_practices has returned, the doctors
\* half when generate_doctors has returned.
C1_RoundTrip ==
    /\ PracticesLoaded =>
         /\ Len(db.committed.practices) = NUM_PRACTICES
         /\ Len(practice_ids) = NUM_PRACTICES
         /\ Ns(db.committed.practices) = [x \in 1..NUM_PRACTICES |-> x]
         /\ Flushed("practices", "committed") = generated.practices
         /\ Ns(generated.practices) = [x \in 1..NUM_PRACTICES |-> x]
    /\ DoctorsLoaded =>
         /\ Len(db.committed.doctors) = NUM_DOCTORS
         /\ Len(doctor_ids) = NUM_DOCTORS
         /\ Ns(db.committed.doctors) = [x \in 1..NUM_DOCTORS |-> x]
         /\ Flushed("doctors", "committed") = generated.doctors
         /\ Ns(generated.doctors) = [x \in 1..NUM_DOCTORS |-> x]

\* A finished run whose last practice batch is partial (3 rows, batches of
\* 2) and whose doctor count is an exact multiple of the batch size.
C1_Witness ==
    /\ pc = "done"
    /\ NUM_PRACTICES = 3 /\ batch_size.practices = 2
    /\ NUM_DOCTORS = 2 /\ batch_size.doctors = 2
    /\ Len(db.committed.practices) = 3
    /\ Len(db.committed.doctors) = 2

\* ---------------------------------------------------------------- C2
\* C2: among the affiliation rows generated for one doctor, the first one
\* generated is primary and no other is (no row, no primary); the same holds
\* of the rows stored in the sink, also when they arrived in two flushes.
C2_OnePrimary ==
    \A p \in DOMAIN doctor_ids :
        \A rows \in { RowsOfDoctor(generated.doctor_practices, doctor_ids[p]),
                      RowsOfDoctor(db.committed.doctor_practices, doctor_ids[p]) } :
            \/ ~Cleared
            \/ rows = <<>>
            \/ /\ rows[1].is_primary
               /\ \A x \in 2..Len(rows) : ~rows[x].is_primary

\* A finished run in which one doctor's rows were split across two flushes.
C2_Witness ==
    /\ pc = "done"
    /\ \E a, b \in DOMAIN flushLog :
         /\ a < b
         /\ flushLog[a].table = "doctor_practices"
         /\ flushLog[b].table = "doctor_practices"
         /\ \E ra \in Range(flushLog[a].rows), rb \in Range(flushLog[b].rows) :
              /\ ra.doctor_id = rb.doctor_id
              /\ ra.is_primary
              /\ ~rb.is_primary

\* ---------------------------------------------------------------- C3
\* C3: a bulk insert that raises ends the run.  Whenever the log holds a
\* failed flush it is the last flush ever attempted, the run has stopped in
\* the stage of that flush (no later stage was started), every earlier flush
\* is committed and its rows are in the sink, and no row of the failing
\* flush is.
C3_FlushFailureFatal ==
    \A k \in DOMAIN flushLog :
        flushLog[k].status = "failed" =>
            /\ k = Len(flushLog)
            /\ pc = "failed"
            /\ error = "psycopg2.Error"
            /\ Len(stagesRun) = StageIndex(flushLog[k].table)
            /\ \A e \in 1..(k - 1) : flushLog[e].status = "committed"
            /\ \A t \in Tables : Ns(db.committed[t]) = Ns(Flushed(t, "committed"))
            /\ \A r \in Range(flushLog[k].rows) :
                   r.n \notin Range(Ns(db.committed[flushLog[k].table]))

\* The third license flush raised: the licenses of flushes 1 and 2 are in
\* the sink and generate_doctor_practices was never called.
C3_Witness ==
    /\ pc = "failed"
    /\ Len(flushLog) >= 3
    /\ flushLog[Len(flushLog)].table = "licenses"
    /\ flushLog[Len(flushLog)].status = "failed"
    /\ flushLog[Len(flushLog) - 1].table = "licenses"
    /\ flushLog[Len(flushLog) - 2].table = "licenses"
    /\ (Len(flushLog) > 3 => flushLog[Len(flushLog) - 3].table # "licenses")
    /\ db.committed.licenses =
           flushLog[Len(flushLog) - 2].rows \o flushLog[Len(flushLog) - 1].rows
    /\ Len(stagesRun) = 4
    /\ generated.doctor_practices = <<>>

\* ---------------------------------------------------------------- C4
\* C4: with pairwise distinct practice identifiers, every doctor has at most
\* min(MAX_PRACTICES_PER_DOCTOR, number of practice identifiers) affiliation
\* rows and no practice identifier occurs twice among them.
C4_AffiliationsDistinct ==
    Distinct(practice_ids) =>
        \A p \in DOMAIN doctor_ids :
            LET rows == RowsOfDoctor(generated.doctor_practices, doctor_ids[p])
            IN  /\ Len(rows) \in 0..Min(MAX_PRACTICES_PER_DOCTOR, Len(practice_ids))
                /\ \A a, b \in DOMAIN rows :
                       a # b => rows[a].practice_id # rows[b].practice_id

\* A doctor with as many affiliation rows as allowed, over several
\* practices.
C4_Witness ==
    /\ pc = "done"
    /\ Len(practice_ids) >= 2
    /\ \E p \in DOMAIN doctor_ids :
         Len(RowsOfDoctor(generated.doctor_practices, doctor_ids[p]))
             = Min(MAX_PRACTICES_PER_DOCTOR, Len(practice_ids))

\* ---------------------------------------------------------------- C5
\* C5: each doctor identifier gets at most MAX_LICENSES_PER_DOCTOR license
\* rows, and at least one once the loop has finished with it; when
\* generate_licenses has returned, the number of license rows generated for
\* N doctors is between N and N * MAX_LICENSES_PER_DOCTOR.
C5_LicenseCounts ==
    /\ \A p \in DOMAIN doctor_ids :
         LET cnt == Len(RowsOfDoctor(generated.licenses, doctor_ids[p]))
         IN  /\ cnt <= MAX_LICENSES_PER_DOCTOR
             /\ LicensesDoneFor(p) => cnt >= 1
    /\ LicensesLoaded =>
         /\ Len(generated.licenses) >= Len(doctor_ids)
         /\ Len(generated.licenses) <= Len(doctor_ids) * MAX_LICENSES_PER_DOCTOR
         /\ licenses_count = Len(generated.licenses)

\* Two doctors, one with the fewest and one with the most licenses.
C5_Witness ==
    /\ LicensesLoaded
    /\ Len(doctor_ids) = 2
    /\ Len(RowsOfDoctor(generated.licenses, doctor_ids[1])) = 1
    /\ Len(RowsOfDoctor(generated.licenses, doctor_ids[2])) = MAX_LICENSES_PER_DOCTOR

\* ---------------------------------------------------------------- C6
\* C6: with an empty practice identifier list, generate_doctor_practices
\* generates no row for any doctor, raises nothing, issues no bulk insert
\* and runs through to its return.
C6_EmptyPracticeSet ==
    (InAssocStage /\ practice_ids = <<>>) =>
        /\ generated.doctor_practices = <<>>
        /\ doctor_practice_batch = <<>>
        /\ \A k \in DOMAIN flushLog : flushLog[k].table # "doctor_practices"
        /\ error = "none"
        /\ pc \in {"doctor_practices_loop", "close", "done"}

\* A finished run over two doctors and no practice.
C6_Witness ==
    /\ pc = "done"
    /\ practice_ids = <<>>
    /\ Len(doctor_ids) = 2
    /\ InAssocStage
    /\ db.committed.doctor_practices = <<>>

\* ---------------------------------------------------------------- C7
\* C7: random.sample never raises; the sample has min(num_practices, number
\* of practice identifiers) elements; and with a non-empty practice list
\* every doctor the loop has finished with has between 1 and
\* min(MAX_PRACTICES_PER_DOCTOR, number of practice identifiers) rows.
C7_AffiliationCountClamped ==
    /\ error # "ValueError"
    /\ (InAssocStage /\ doctor_pos >= 1) =>
           Len(doctor_practices) = Min(num_practices, Len(practice_ids))
    /\ (InAssocStage /\ practice_ids # <<>>) =>
           \A p \in DOMAIN doctor_ids :
               AssocDoneFor(p) =>
                   Len(RowsOfDoctor(generated.doctor_practices, doctor_ids[p]))
                       \in 1..Min(MAX_PRACTICES_PER_DOCTOR, Len(practice_ids))

\* Two practices: one doctor got 1 row, the other asked for 3 and got 2, so
\* every count of 1..min(3, 2) occurs and a request was clamped.
C7_Witness ==
    /\ pc = "done"
    /\ Len(practice_ids) = 2
    /\ Len(doctor_ids) = 2
    /\ Len(RowsOfDoctor(generated.doctor_practices, doctor_ids[1])) = 1
    /\ Len(RowsOfDoctor(generated.doctor_practices, doctor_ids[2])) = 2
    /\ num_practices = 3

\* ---------------------------------------------------------------- C8
\* C8: an answer other than "y" or "Y" takes the run from the prompt
\* straight to cancelled, with the sink untouched, clear_tables not called
\* and no bulk insert issued; and nothing happens after cancelled.
C8_DeclineCancels ==
    [][ /\ (pc = "prompt" /\ answer' \notin {<<"y">>, <<"Y">>}) =>
              /\ pc' = "cancelled"
              /\ db' = db
              /\ stagesRun' = <<>>
              /\ flushLog' = <<>>
        /\ pc = "cancelled" => (pc' = "cancelled" /\ db' = db /\ flushLog' = <<>>)
      ]_vars

\* "yes" was answered over a non-empty sink: cancelled.
C8_Witness ==
    /\ pc = "cancelled"
    /\ answer = <<"y", "e", "s">>
    /\ Len(db.committed.doctors) > 0
    /\ stagesRun = <<>>

\* ---------------------------------------------------------------- C9
StageOrder ==
    /\ Len(stagesRun) <= Len(Stages)
    /\ \A x \in DOMAIN stagesRun : stagesRun[x] = Stages[x]
    /\ \A k \in DOMAIN flushLog :
         /\ StageIndex(flushLog[k].table) = Len(stagesRun)
            \/ flushLog[k].status = "committed"
         /\ StageIndex(flushLog[k].table) <= Len(stagesRun)
         /\ \A j \in 1..(k - 1) :
              StageIndex(flushLog[j].table) <= StageIndex(flushLog[k].table)
    /\ pc \in {"close", "done"} => stagesRun = Stages
    /\ pc = "failed" => error = "psycopg2.Error"

\* C9: after the confirmation main calls clear_tables, generate_practices,
\* generate_doctors, generate_licenses and generate_doctor_practices in this
\* order, each once; the flushes of a stage are all committed before the
\* next stage flushes; the run stops early only on a sink error, and
\* otherwise reaches done.
C9_StagesInOrder ==
    /\ []StageOrder
    /\ (pc = "clear_tables") ~> (pc = "done" \/ (pc = "failed" /\ error = "psycopg2.Error"))

\* A finished run that flushed into all four tables.
C9_Witness ==
    /\ pc = "done"
    /\ stagesRun = Stages
    /\ {flushLog[k].table : k \in DOMAIN flushLog} = Tables

\* --------------------------------------------------------------- C10
InsertCommitLabels ==
    {"practices_commit", "doctors_commit", "licenses_commit",
     "licenses_rest_commit", "doctor_practices_commit",
     "doctor_practices_rest_commit"}

BatchOf(t) ==
    CASE t = "practices" -> practice_batch
      [] t = "doctors" -> doctor_batch
      [] t = "licenses" -> license_batch
      [] t = "doctor_practices" -> doctor_practice_batch

\* C10: the open transaction holds changes only between an execute and its
\* commit; the uncommitted rows are exactly the rows of the last bulk
\* insert, and the batch has not grown since; the committed flushes are a
\* prefix of the flush sequence and, once the tables are cleared, the sink
\* holds exactly their rows.
C10_CommitPerBatch ==
    /\ db.current # db.committed => pc \in InsertCommitLabels \cup {"clear_commit"}
    /\ \A k \in DOMAIN flushLog :
         /\ flushLog[k].status = "inserted" =>
                (k = Len(flushLog) /\ pc \in InsertCommitLabels)
         /\ flushLog[k].status = "committed" =>
                \A j \in 1..(k - 1) : flushLog[j].status = "committed"
    /\ pc \in InsertCommitLabels =>
         /\ flushLog # <<>>
         /\ LET e == flushLog[Len(flushLog)]
            IN  /\ e.status = "inserted"
                /\ BatchOf(e.table) = e.rows
                /\ \A t \in Tables :
                     Ns(db.current[t]) =
                        Ns(db.committed[t]) \o (IF t = e.table THEN Ns(e.rows) ELSE <<>>)
    /\ Cleared => \A t \in Tables : Ns(db.committed[t]) = Ns(Flushed(t, "committed"))

\* A second license batch inserted and not yet committed, on top of a
\* committed first one.
C10_Witness ==
    /\ pc = "licenses_commit"
    /\ db.committed.licenses # <<>>
    /\ Len(db.current.licenses) > Len(db.committed.licenses)
    /\ flushLog[Len(flushLog)].status = "inserted"

\* --------------------------------------------------------------- C11
\* No row that was in the sink before the run, committed or in the open
\* transaction.
NoOldRows ==
    \A t \in Tables :
        \A r \in Range(db.committed[t]) \cup Range(db.current[t]) : r.run = 1

\* C11: in a confirmed run clear_tables is executed and committed before
\* anything is generated or inserted; its commit leaves all four tables
\* empty; from then on the sink never holds a row from before the run, and
\* at the end it holds exactly the rows this run generated.
C11_ClearBeforeLoad ==
    /\ []((flushLog # <<>> \/ generated # EmptyTables) => Cleared)
    /\ [](Cleared => NoOldRows)
    /\ [](pc = "done" =>
            \A t \in Tables : Ns(db.committed[t]) = Ns(generated[t]))
    /\ [][(pc = "clear_commit" /\ pc' # "failed") =>
            (db'.committed = EmptyTables /\ Cleared')]_vars

\* TRUNCATE has run in a confirmed run over a sink that held rows in all
\* four tables: the transaction sees them gone, the commit is next.
C11_Witness ==
    /\ pc = "clear_commit"
    /\ \A t \in Tables : db.committed[t] # <<>>
    /\ db.current = EmptyTables
    /\ flushLog = <<>>

\* ------------------------------------------------- the dates of a row
\* The dates of one license and one association, generated as in the two
\* loop bodies.  A date is a number of days relative to today.
Max(a, b) == IF a >= b THEN a ELSE b

\* The outcomes of a random draw from lo..hi that the model follows.
Picks(lo, hi) == (lo..Min(lo + MaxEdge, hi)) \cup (Max(hi - MaxEdge, lo)..hi)

\* The length given to the month of a relative date string.
DaysPerMonth == 30

\* Faker's relative date strings, "-15y", "today", "-1m", "+2y": that many
\* years and months from today.  The unit letters are Faker's; "m" is
\* taken as the month the specification reads in it.
RelDate(years, months) == years * DaysPerYear + months * DaysPerMonth

\* fake.date_between(start_date, end_date): a date from start_date to
\* end_date, both included.
DateBetween(a, b) == Picks(a, b)

\* randint(0, 365*10)
ExpiryDaysFromZero == Picks(0, DaysPerYear * 10)

\* random.randint(365*1, 365*10)
ExpiryDays == Picks(DaysPerYear * 1, DaysPerYear * 10)

\* issue_date = fake.date_between("-15y", "today")
\* expiry_date = issue_date + timedelta(days=randint(365*1, 365*10))
LicenseDates ==
    /\ pc = "license_dates"
    /\ \E d \in DateBetween(RelDate(-15, 0), RelDate(0, 0)), k \in ExpiryDays :
         /\ issue_date' = d
         /\ expiry_date' = d + k
    /\ pc' = "association_dates"
    /\ UNCHANGED <<error, db, config, answer, idLists, batches, i, doctor_pos,
                   licLocals, assocLocals, flushLog, stagesRun, generated,
                   start_date, end_date>>

\* start_date = fake.date_between("-10y", "-1m")
\* end_date = None if random() < 0.8 else fake.date_between(start_date, "+2y")
\* (None is the empty sequence, a date d the sequence <<d>>).
AssocDates ==
    /\ pc = "association_dates"
    /\ \E sd \in DateBetween(RelDate(-10, 0), RelDate(0, -1)) :
         /\ start_date' = sd
         /\ \/ end_date' = <<>>
            \/ \E ed \in DateBetween(sd, RelDate(2, 0)) : end_date' = <<ed>>
    /\ pc' = "dated"
    /\ UNCHANGED <<error, db, config, answer, idLists, batches, i, doctor_pos,
                   licLocals, assocLocals, flushLog, stagesRun, generated,
                   issue_date, expiry_date>>

DateInit ==
    /\ pc = "license_dates"
    /\ Fresh
    /\ NUM_DOCTORS = 1
    /\ NUM_PRACTICES = 1
    /\ \A t \in Tables : batch_size[t] = 1
    /\ db.committed = EmptyTables

DateNext == LicenseDates \/ AssocDates

DateSpec == DateInit /\ [][DateNext]_vars

\* --------------------------------------------------------------- C12
\* C12: a generated license expires after it was issued, between 365 and
\* 3650 days later, and was issued today or at most 15 years before today.
C12_LicenseDates ==
    pc \in {"association_dates", "dated"} =>
        /\ expiry_date > issue_date
        /\ expiry_date - issue_date >= 1 * DaysPerYear
        /\ expiry_date - issue_date <= 10 * DaysPerYear
        /\ issue_date <= 0
        /\ issue_date >= -15 * DaysPerYear

\* The earliest issue date with the shortest validity.
C12_Witness ==
    /\ pc = "association_dates"
    /\ issue_date = -15 * DaysPerYear
    /\ expiry_date = issue_date + DaysPerYear

\* --------------------------------------------------------------- C13
\* C13: an association with an end date ends after it started (and not
\* later than two years from today), and started within the last 10 years
\* and at least a month ago.
C13_AssociationDates ==
    (pc = "dated" /\ end_date # <<>>) =>
        /\ end_date[1] > start_date
        /\ end_date[1] <= RelDate(2, 0)
        /\ start_date >= RelDate(-10, 0)
        /\ start_date <= RelDate(0, -1)

\* --------------------------------------------- clear_tables called twice
\* Sink contents with the four tables filled independently: cp practices,
\* cd doctors, cl licenses spread over the doctors, ca associations
\* (doctor x with practice x).
PriorTables(cp, cd, cl, ca) ==
    [practices        |-> [x \in 1..cp |-> [practice_id |-> x, run |-> 0, n |-> x]],
     doctors          |-> [x \in 1..cd |-> [doctor_id |-> x, run |-> 0, n |-> x]],
     licenses         |-> [x \in 1..cl |-> [doctor_id |-> Min(x, cd),
                                           run |-> 0, n |-> x]],
     doctor_practices |-> [x \in 1..ca |-> [doctor_id |-> x, practice_id |-> x,
                                           is_primary |-> TRUE, run |-> 0, n |-> x]]]

\* The sinks clear_tables is called on: every filling of up to MaxOld + 1
\* rows per table that respects the foreign keys, the identity sequences
\* at or past the next free value.
PriorDbs ==
    { [committed |-> PriorTables(cp, cd, cl, ca),
       current   |-> PriorTables(cp, cd, cl, ca),
       seq       |-> [practices |-> cp + 1 + gp, doctors |-> cd + 1 + gd]] :
        <<cp, cd, cl, ca>> \in
            { q \in (0..(MaxOld + 1)) \X (0..(MaxOld + 1)) \X (0..(MaxOld + 1))
                        \X (0..(MaxOld + 1)) :
                (q[3] > 0 => q[2] > 0) /\ q[4] <= Min(q[1], q[2]) },
        gp \in 0..1, gd \in 0..1 }

ClearInit ==
    /\ pc = "clear_first"
    /\ Unstarted
    /\ db \in PriorDbs
    /\ NUM_DOCTORS = 0
    /\ NUM_PRACTICES = 0
    /\ batch_size \in BatchConfigs
    /\ \A t \in Tables : batch_size[t] = 1

\* clear_tables, first or second call: cur.execute("TRUNCATE ...")
ClearTwiceExecute ==
    /\ pc \in {"clear_first", "clear_second"}
    /\ db' = Truncate(db)
    /\ pc' = IF pc = "clear_first" THEN "clear_first_commit" ELSE "clear_second_commit"
    /\ stagesRun' = Append(stagesRun, "clear_tables")
    /\ UNCHANGED <<dateLocals, error, config, answer, idLists, batches, i,
                   doctor_pos, licLocals, assocLocals, flushLog, generated>>

\* clear_tables, first or second call: conn.commit()
ClearTwiceCommit ==
    /\ pc \in {"clear_first_commit", "clear_second_commit"}
    /\ db' = Commit(db)
    /\ pc' = IF pc = "clear_first_commit" THEN "clear_second" ELSE "cleared_twice"
    /\ UNCHANGED <<dateLocals, error, config, answer, idLists, batches, i,
                   doctor_pos, licLocals, assocLocals, flushLog, stagesRun,
                   generated>>

ClearNext == ClearTwiceExecute \/ ClearTwiceCommit

ClearSpec == ClearInit /\ [][ClearNext]_vars

\* --------------------------------------------------------------- C14
\* C14: after the first call of clear_tables and after the second, all four
\* tables are empty, in the sink and in the open transaction, the identity
\* sequences restart at 1, and the second call meets no error: it leaves
\* the sink as the first call left it.
C14_ClearIdempotent ==
    /\ error = "none"
    /\ pc \in {"clear_second", "clear_second_commit", "cleared_twice"} =>
         /\ \A t \in Tables : db.committed[t] = <<>> /\ db.current[t] = <<>>
         /\ db.seq = [practices |-> 1, doctors |-> 1]

\* Both calls made, the second one committed.
C14_Witness ==
    /\ pc = "cleared_twice"
    /\ stagesRun = <<"clear_tables", "clear_tables">>
    /\ db.committed = EmptyTables

\* --------------------------------------------------------------- C15
\* C15: when the connection cannot be established the process is at its
\* error exit and stays there: the prompt was not shown (no answer read),
\* no function of main was called (no clear, no generation), no bulk insert
\* was issued and the sink is as it was.
C15_ConnectFailureExits ==
    /\ [](error = "connect" =>
            /\ pc = "exit_error"
            /\ answer = <<>>
            /\ stagesRun = <<>>
            /\ flushLog = <<>>
            /\ generated = EmptyTables
            /\ db.current = db.committed)
    /\ [][pc # "exit_error"]_vars

\* The connection failed on a sink that holds rows of an earlier run.
C15_Witness ==
    /\ pc = "exit_error"
    /\ error = "connect"
    /\ \A t \in Tables : db.committed[t] # <<>>

\* --------------------------------------------------------------- C16
\* C16: an error raised by clear_tables (by its TRUNCATE or by its commit)
\* ends the run at once and for good: clear_tables is the only function
\* main called, no row was generated, no identifier captured, no bulk
\* insert issued, and the open transaction was rolled back.
C16_ClearFailureAborts ==
    /\ [][(pc \in {"clear_tables", "clear_commit"} /\ error' # "none") =>
             pc' = "failed"]_vars
    /\ []((pc = "failed" /\ stagesRun = <<"clear_tables">>) =>
            /\ flushLog = <<>>
            /\ generated = EmptyTables
            /\ practice_ids = <<>> /\ doctor_ids = <<>>
            /\ db.current = db.committed)
    /\ [][pc # "failed"]_vars

\* clear_tables failed on a sink that holds rows of an earlier run.
C16_Witness ==
    /\ pc = "failed"
    /\ error = "psycopg2.Error"
    /\ stagesRun = <<"clear_tables">>
    /\ \A t \in Tables : db.committed[t] # <<>>

\* --------------------------------------------------------------- C17
\* The bulk inserts issued for table t, in order.
FlushesOf(t) ==
    LET OfT(f) == f.table = t
    IN  SelectSeq(flushLog, OfT)

\* The function that fills table t has returned.
StageDone(t) ==
    IF t = "doctor_practices" THEN pc \in {"close", "done"}
    ELSE Len(stagesRun) > StageIndex(t)

Ceil(a, b) == (a + b - 1) \div b

\* The positions of the run at which a bulk insert of t is in progress.
FlushLabels(t) ==
    CASE t = "practices" -> {"practices_insert", "practices_commit"}
      [] t = "doctors" -> {"doctors_insert", "doctors_commit"}
      [] t = "licenses" -> {"licenses_insert", "licenses_commit"}
      [] t = "doctor_practices" ->
            {"doctor_practices_insert", "doctor_practices_commit"}

\* A buffer never holds more than batch_size rows, and holds batch_size
\* rows only while it is being flushed.
C17_BufferBounded ==
    \A t \in Tables :
        /\ Len(BatchOf(t)) <= batch_size[t]
        /\ Len(BatchOf(t)) = batch_size[t] => pc \in FlushLabels(t) \cup {"failed"}

\* Every flush of a stage but its last submits exactly batch_size rows.
C17_FullBatches ==
    \A k \in DOMAIN flushLog :
        (\E j \in (k + 1)..Len(flushLog) : flushLog[j].table = flushLog[k].table)
            => Len(flushLog[k].rows) = batch_size[flushLog[k].table]

\* A finished stage that produced T rows made ceil(T / batch_size) flushes.
C17_FlushCount ==
    \A t \in Tables :
        StageDone(t) =>
            Len(FlushesOf(t)) = Ceil(Len(generated[t]), batch_size[t])

\* The step that commits a flush of table t leaves the buffer of t empty.
C17_EmptyAfterFlush ==
    \A t \in Tables :
        ( /\ flushLog # <<>>
          /\ Len(flushLog') = Len(flushLog)
          /\ flushLog[Len(flushLog)].status = "inserted"
          /\ flushLog'[Len(flushLog)].status = "committed"
          /\ flushLog[Len(flushLog)].table = t )
            => BatchOf(t)' = <<>>

\* C17: each stage's buffer holds at most batch_size rows and is flushed
\* when it reaches batch_size or at the end of the stream; the buffer is
\* empty after each flush; every flush of a stage but its last submits
\* exactly batch_size rows; a stage that produced T rows made exactly
\* ceil(T / batch_size) flushes.
C17_Batching ==
    /\ [](C17_BufferBounded /\ C17_FullBatches /\ C17_FlushCount)
    /\ [][C17_EmptyAfterFlush]_vars

\* --------------------------------------------------------------- C18
\* C18: when generate_licenses has returned, the sink holds exactly the
\* generated license rows, each once and in generation order, and their
\* number is licenses_count; when generate_doctor_practices has returned,
\* the same holds of the affiliation rows and associations_count.
C18_DependentsPersistedOnce ==
    /\ LicensesLoaded =>
         /\ db.committed.licenses = generated.licenses
         /\ Flushed("licenses", "committed") = generated.licenses
         /\ Len(db.committed.licenses) = licenses_count
         /\ Ns(db.committed.licenses) = [x \in 1..licenses_count |-> x]
    /\ pc \in {"close", "done"} =>
         /\ db.committed.doctor_practices = generated.doctor_practices
         /\ Flushed("doctor_practices", "committed") = generated.doctor_practices
         /\ Len(db.committed.doctor_practices) = associations_count
         /\ Ns(db.committed.doctor_practices) = [x \in 1..associations_count |-> x]

\* A finished run in which the licenses of one doctor straddle two bulk
\* inserts and the last bulk insert of each dependent table is a partial
\* batch.
C18_Witness ==
    /\ pc = "done"
    /\ \E k, j \in DOMAIN FlushesOf("licenses") :
         /\ j = k + 1
         /\ FlushesOf("licenses")[k].rows[Len(FlushesOf("licenses")[k].rows)].doctor_id
              = FlushesOf("licenses")[j].rows[1].doctor_id
         /\ j = Len(FlushesOf("licenses"))
         /\ Len(FlushesOf("licenses")[j].rows) < batch_size.licenses
    /\ FlushesOf("doctor_practices") # <<>>
    /\ Len(FlushesOf("doctor_practices")[Len(FlushesOf("doctor_practices"))].rows)
          < batch_size.doctor_practices

\* --------------------------------------------------------------- C19
\* The key values of the rows of this run that are committed in table t.
CommittedKeys(t, key) ==
    { r[key] : r \in { x \in Range(db.committed[t]) : x.run = 1 } }

\* The rows generated for table t or submitted in a bulk insert of t.
RowsSeen(t) ==
    Range(generated[t]) \cup Range(BatchOf(t))
        \cup UNION { Range(flushLog[k].rows) :
                        k \in { x \in DOMAIN flushLog : flushLog[x].table = t } }

\* C19: every license row generated or submitted carries a doctor
\* identifier, and every affiliation row a doctor identifier and a practice
\* identifier, that is in the list returned by the sink for this run's rows
\* and is committed in the sink by then; the lists handed to the dependent
\* stages are exactly the committed identifiers of this run.
C19_ReferentialIntegrity ==
    /\ \A r \in RowsSeen("licenses") :
         /\ r.doctor_id \in Range(doctor_ids)
         /\ r.doctor_id \in CommittedKeys("doctors", "doctor_id")
    /\ \A r \in RowsSeen("doctor_practices") :
         /\ r.doctor_id \in Range(doctor_ids)
         /\ r.doctor_id \in CommittedKeys("doctors", "doctor_id")
         /\ r.practice_id \in Range(practice_ids)
         /\ r.practice_id \in CommittedKeys("practices", "practice_id")
    /\ DoctorsLoaded =>
         /\ Range(doctor_ids) = CommittedKeys("doctors", "doctor_id")
         /\ Range(practice_ids) = CommittedKeys("practices", "practice_id")

\* A finished run with several doctors and practices whose dependent rows
\* are all in the sink.
C19_Witness ==
    /\ pc = "done"
    /\ Len(doctor_ids) >= 2
    /\ Len(practice_ids) >= 2
    /\ { r.doctor_id : r \in Range(db.committed.licenses) } = Range(doctor_ids)
    /\ { r.practice_id : r \in Range(db.committed.doctor_practices) }
          = Range(practice_ids)

\* --------------------------------------------------------------- C20
\* C20: every bulk insert issued, in any of the four stages and whether it
\* succeeded or not, submits at least one row.
C20_NoEmptyFlush ==
    \A k \in DOMAIN flushLog : flushLog[k].rows # <<>>

\* A finished run with doctors and no practices: the two stages with
\* nothing to write issued no bulk insert, the other two did.
C20_Witness ==
    /\ pc = "done"
    /\ NUM_PRACTICES = 0
    /\ NUM_DOCTORS > 0
    /\ { flushLog[k].table : k \in DOMAIN flushLog } = {"doctors", "licenses"}

====
